---- MODULE Spec2Model ----
(***************************************************************************)
(* Model of src/app.py, the Vedic chart engine: two HTTP handlers          *)
(* (geocode_place, compute_natal) over process-wide configuration set at   *)
(* import time, with the geocoding provider and the Swiss Ephemeris as     *)
(* environment.                                                            *)
(*                                                                         *)
(* Numbers.  Python floats are modelled by a scaled-down binary float: a   *)
(* value is an integer count of 1/16 degree, and a value is representable  *)
(* when it fits an 11-bit significand (every integer below 2048, every     *)
(* even integer below 4096, every multiple of 4 below 8192, ...).  360.0   *)
(* is 5760, 180.0 is 2880, 30.0 is 480.  One unit plays the part of the    *)
(* last few bits of a double: adding 360.0 to a small negative value       *)
(* rounds, exactly as (-1e-20) % 360.0 == 360.0 in Python.                 *)
(*                                                                         *)
(* Time.  jd_ut is the Julian Day in seconds counted from JD 2451545.0.    *)
(***************************************************************************)
EXTENDS Integers, Sequences, FiniteSets, TLC

VARIABLES
    sid_mode,     \* swe.set_sid_mode(...)            (process-wide, app.py:17)
    ephe_path,    \* swe.set_ephe_path(...)           (process-wide, app.py:20)
    GEO,          \* the Nominatim client             (process-wide, app.py:22)
    PLANETS,      \* module global dict, in insertion order (app.py:24-34)
    SIGNS,        \* module global list               (app.py:36-39)
    npc,          \* per natal worker: position inside compute_natal
    nreq,         \* per natal worker: the NatalReq being served
    nloc,         \* per natal worker: the locals of compute_natal
    nresp,        \* per natal worker: the response that left the handler
    ncalls,       \* per natal worker: ephemeris calls made for the request
    gpc,          \* geocode worker: position inside geocode_place
    greq,         \* geocode worker: the GeocodeReq being served
    gresp,        \* geocode worker: what left the handler
    gcalls,       \* geocode worker: provider calls made for the request
    gloc,         \* geocode worker: what GEO.geocode did (raised, or loc)
    lsd_in,       \* argument of a direct call of lon_to_sign_deg
    lsd_out       \* its outcome

shared == <<sid_mode, ephe_path, GEO, PLANETS, SIGNS>>
natalVars == <<npc, nreq, nloc, nresp, ncalls>>
geoVars == <<gpc, greq, gresp, gcalls, gloc>>
lsdVars == <<lsd_in, lsd_out>>
vars == <<sid_mode, ephe_path, GEO, PLANETS, SIGNS, npc, nreq, nloc, nresp,
          ncalls, gpc, greq, gresp, gcalls, gloc, lsd_in, lsd_out>>

----------------------------------------------------------------------------
(* Bounds *)

\* Number of compute_natal requests the runtime serves at the same time.
NumNatal == 2

NatalWorkers == 1..NumNatal

----------------------------------------------------------------------------
(* Float arithmetic *)

RECURSIVE Ulp(_)
\* Spacing of representable values around n >= 0 (11-bit significand).
Ulp(n) == IF n < 2048 THEN 1 ELSE 2 * Ulp(n \div 2)

\* Round to nearest representable value, ties to the even significand.
FRoundPos(n) ==
    LET u == Ulp(n)
        q == n \div u
        r == n % u
    IN  IF 2 * r < u \/ (2 * r = u /\ q % 2 = 0) THEN q * u ELSE (q + 1) * u

FRound(n) == IF n >= 0 THEN FRoundPos(n) ELSE -FRoundPos(-n)

Representable(n) == FRound(n) = n

\* C fmod: exact, result carries the sign of x.
Fmod(x, w) == IF x >= 0 THEN x % w ELSE -((-x) % w)

\* Python's float x % w for w > 0: fmod, then "+ w" (a rounded float
\* addition) when the remainder is negative.
PyMod(x, w) ==
    LET m == Fmod(x, w)
    IN  IF m < 0 THEN FRound(m + w) ELSE m

\* Python's float x // w for w > 0, converted by int().
PyFloorDiv(x, w) ==
    LET m == Fmod(x, w)
    IN  IF m < 0 THEN ((x - m) \div w) - 1 ELSE (x - m) \div w

D360 == 5760
D180 == 2880
D30 == 480

----------------------------------------------------------------------------
(* Module globals *)

PLANETS0 ==
    << [name |-> "Sun",     pid |-> 0],
       [name |-> "Moon",    pid |-> 1],
       [name |-> "Mars",    pid |-> 4],
       [name |-> "Mercury", pid |-> 2],
       [name |-> "Jupiter", pid |-> 5],
       [name |-> "Venus",   pid |-> 3],
       [name |-> "Saturn",  pid |-> 6],
       [name |-> "Rahu",    pid |-> 11],
       [name |-> "Ketu",    pid |-> -1] >>

SIGNS0 ==
    << "Aries", "Taurus", "Gemini", "Cancer", "Leo", "Virgo",
       "Libra", "Scorpio", "Sagittarius", "Capricorn", "Aquarius", "Pisces" >>

lon_to_sign_deg(lon) ==
    LET l == PyMod(lon, D360)
        sign_index == PyFloorDiv(l, D30)
    IN  IF sign_index + 1 \in DOMAIN SIGNS
        THEN [ok |-> TRUE, sign |-> SIGNS[sign_index + 1],
              deg |-> FRound(l - sign_index * D30)]
        ELSE [ok |-> FALSE, sign |-> "IndexError", deg |-> 0]

----------------------------------------------------------------------------
(* Strings: a str is the sequence of its code points *)

\* str.lower() on ASCII text.
Lower(s) == [i \in DOMAIN s |-> IF s[i] \in 65..90 THEN s[i] + 32 ELSE s[i]]

LAHIRI == <<108, 97, 104, 105, 114, 105>>          \* "lahiri"

\* Code points of the names that occur as PlanetOut.name.
CodePoints ==
    [ Sun     |-> <<83, 117, 110>>,
      Moon    |-> <<77, 111, 111, 110>>,
      Mars    |-> <<77, 97, 114, 115>>,
      Mercury |-> <<77, 101, 114, 99, 117, 114, 121>>,
      Jupiter |-> <<74, 117, 112, 105, 116, 101, 114>>,
      Venus   |-> <<86, 101, 110, 117, 115>>,
      Saturn  |-> <<83, 97, 116, 117, 114, 110>>,
      Rahu    |-> <<82, 97, 104, 117>>,
      Ketu    |-> <<75, 101, 116, 117>> ]

RECURSIVE SeqLess(_, _)
\* Python's str "<": lexicographic by code point, a proper prefix is smaller.
SeqLess(a, b) ==
    IF b = <<>> THEN FALSE
    ELSE IF a = <<>> THEN TRUE
    ELSE IF Head(a) # Head(b) THEN Head(a) < Head(b)
    ELSE SeqLess(Tail(a), Tail(b))

StrLess(x, y) == SeqLess(CodePoints[x], CodePoints[y])

RECURSIVE InsertByName(_, _)
\* Insert e after every element that is not greater than it (stable).
InsertByName(e, s) ==
    IF s = <<>> THEN <<e>>
    ELSE IF StrLess(e.name, Head(s).name) THEN <<e>> \o s
    ELSE <<Head(s)>> \o InsertByName(e, Tail(s))

RECURSIVE SortedRev(_, _)
SortedRev(s, acc) ==
    IF s = <<>> THEN acc ELSE SortedRev(Tail(s), InsertByName(Head(s), acc))

\* The response returned in computation order.
SortedByNameUnsorted(s) == s

\* sorted(planets_out, key=lambda x: x.name)
SortedByName(s) == SortedRev(s, <<>>)

----------------------------------------------------------------------------
(* to_utc *)

\* datetime.fromisoformat on the date strings requests carry here; a string
\* outside the table does not parse.
DateTable ==
    ( "2000-01-01" :> [year |-> 2000, month |-> 1, day |-> 1] ) @@
    ( "2001-03-01" :> [year |-> 2001, month |-> 3, day |-> 1] )

TimeTable ==
    ( "12:00:00" :> [hour |-> 12, minute |-> 0, second |-> 0] ) @@
    ( "00:15:30" :> [hour |-> 0, minute |-> 15, second |-> 30] )

\* tz.gettz: the zone's UTC offset in seconds at the dates above; a name
\* outside the table gives None.
TzTable == ( "UTC" :> 0 ) @@ ( "Asia/Kolkata" :> 19800 )

IsLeap(y) == (y % 4 = 0 /\ y % 100 # 0) \/ y % 400 = 0

DaysInMonth(y, m) ==
    IF m = 2 THEN (IF IsLeap(y) THEN 29 ELSE 28)
    ELSE IF m \in {4, 6, 9, 11} THEN 30 ELSE 31

PrevDay(d) ==
    IF d.day > 1 THEN [d EXCEPT !.day = d.day - 1]
    ELSE IF d.month > 1
         THEN [d EXCEPT !.month = d.month - 1,
                        !.day = DaysInMonth(d.year, d.month - 1)]
         ELSE [year |-> d.year - 1, month |-> 12, day |-> 31]

NextDay(d) ==
    IF d.day < DaysInMonth(d.year, d.month) THEN [d EXCEPT !.day = d.day + 1]
    ELSE IF d.month < 12 THEN [d EXCEPT !.month = d.month + 1, !.day = 1]
         ELSE [year |-> d.year + 1, month |-> 1, day |-> 1]

\* dt_local.replace(tzinfo=local_tz).astimezone(timezone.utc)
AsUtc(d, t, offset) ==
    LET s == t.hour * 3600 + t.minute * 60 + t.second - offset
        day == IF s < 0 THEN PrevDay(d) ELSE IF s >= 86400 THEN NextDay(d) ELSE d
        u == s % 86400
    IN  [year |-> day.year, month |-> day.month, day |-> day.day,
         hour |-> u \div 3600, minute |-> (u % 3600) \div 60, second |-> u % 60]

NoDt == [year |-> 0, month |-> 0, day |-> 0, hour |-> 0, minute |-> 0, second |-> 0]

to_utc(d, t, tzid) ==
    IF d \notin DOMAIN DateTable \/ t \notin DOMAIN TimeTable
    THEN [ok |-> FALSE, dt |-> NoDt]                  \* fromisoformat: ValueError
    ELSE IF tzid \notin DOMAIN TzTable
    THEN [ok |-> FALSE, dt |-> NoDt]                  \* ValueError("Invalid tzid")
    ELSE [ok |-> TRUE, dt |-> AsUtc(DateTable[d], TimeTable[t], TzTable[tzid])]

\* dt_utc.isoformat(): the fields in print order and the UTC suffix.
IsoFormat(dt) ==
    <<dt.year, dt.month, dt.day, dt.hour, dt.minute, dt.second, "+00:00">>

----------------------------------------------------------------------------
(* Swiss Ephemeris (environment) *)

\* swe.julday(year, month, day, hour + minute/60 + second/3600), Gregorian:
\* seconds from JD 2451545.0 (2000-01-01 12:00 UT).
julday(dt) ==
    LET a == (14 - dt.month) \div 12
        y == dt.year + 4800 - a
        m == dt.month + 12 * a - 3
        jdn == dt.day + ((153 * m + 2) \div 5) + 365 * y + (y \div 4)
               - (y \div 100) + (y \div 400) - 32045
    IN  (jdn - 2451545) * 86400 + dt.hour * 3600 + dt.minute * 60 + dt.second
        - 43200

\* Sample outputs of the library, all representable and in [0, 360).
AscSamples == <<2400, 160, 382, 5756, 0, 384, 959>>
LonSamples == <<0, 479, 480, 5280, 5756, 1234, 2880, 4100, 959, 3202, 3840, 200, 5000>>

EphePaths == {"", "/ephe"}
PathIx(path) == IF path = "" THEN 0 ELSE 1
ModeIx(mode) == IF mode = "SIDM_LAHIRI" THEN 0 ELSE 5

Pick(samples, h) == samples[(h % Len(samples)) + 1]

\* swe.houses(jd_ut, lat, lon, b'P')[1][0]: the tropical ascendant; it does
\* not depend on the sidereal mode.
swe_houses_asc(jd, lat, lon) == Pick(AscSamples, (jd \div 900) + lat + lon)

\* swe.get_ayanamsa_ut(jd_ut) under the sidereal mode set process-wide.
swe_get_ayanamsa_ut(mode, jd) ==
    (IF mode = "SIDM_LAHIRI" THEN 384 ELSE 396) + (jd \div (366 * 86400))

\* swe.calc_ut(jd_ut, pid, FLG_SWIEPH | FLG_SIDEREAL)[0]: sidereal longitude
\* under the process-wide sidereal mode and ephemeris files.
swe_calc_ut(mode, path, jd, pid) ==
    Pick(LonSamples, (jd \div 900) + 3 * pid + PathIx(path) + ModeIx(mode))

\* Whether a library call raises swe.Error.  The library is deterministic:
\* it raises when the data it has under ephe_path does not cover the call
\* (a body's file missing for the date, a house computation that fails for
\* the place), so the outcome is a function of the path and the arguments.
swe_raises(path, fn, jd, arg) ==
    LET h == (jd \div 900) + 5 * PathIx(path)
    IN  IF fn = "houses" THEN (h + arg) % 11 = 3
        ELSE IF fn = "get_ayanamsa_ut" THEN h % 11 = 7
        ELSE (h + arg) % 13 = 12

----------------------------------------------------------------------------
(* compute_natal *)

Ayanamshas ==
    { <<108, 97, 104, 105, 114, 105>>,              \* "lahiri"
      <<76, 97, 72, 105, 82, 105>>,                 \* "LaHiRi"
      <<115, 97, 121, 97, 110, 97>>,                \* "sayana"
      <<>> }                                        \* ""

\* The requests a client sends: valid and invalid dates, times, zones and
\* ayanamsha selectors.
NatalReqs ==
    [ date : {"2000-01-01", "2001-03-01", "2000-13-01"},
      time : {"12:00:00", "00:15:30", "25:00:00"},
      tzid : {"UTC", "Asia/Kolkata", "Not/AZone"},
      lat : {0},
      lon : {0, 77},
      ayanamsha : Ayanamshas ]

\* The requests of the concurrent specification.
ConcReqs ==
    { r \in NatalReqs :
        /\ r.date = "2000-01-01"
        /\ r.tzid = "UTC"
        /\ r.lon = 0
        /\ \/ r.ayanamsha = LAHIRI
           \/ r.time = "12:00:00" /\ r.ayanamsha = <<115, 97, 121, 97, 110, 97>> }

NoReq == [date |-> "", time |-> "", tzid |-> "", lat |-> 0, lon |-> 0,
          ayanamsha |-> <<>>]

NoPos == [name |-> "", lon |-> 0, sign |-> "", degree |-> 0]

Locals0 ==
    [ dt_utc |-> NoDt, jd_ut |-> 0, asc_trop |-> 0, ay |-> 0, asc_lon |-> 0,
      asc_sign |-> "", asc_deg |-> 0, planets_out |-> <<>>, i |-> 0,
      exc |-> [type |-> "", status |-> 0, detail |-> ""] ]

NoBody == [birth_utc |-> <<>>, ascendant |-> NoPos, planets |-> <<>>]
NoResp == [status |-> 0, detail |-> "", body |-> NoBody]

Call(fn, jd, pid) == [fn |-> fn, jd |-> jd, pid |-> pid]

\* An exception leaves the try block: the frame's values are dead, control is
\* at the except clauses.
Raise(p, type, status, detail) ==
    /\ npc' = [npc EXCEPT ![p] = "except"]
    /\ nloc' = [nloc EXCEPT ![p] =
                  [Locals0 EXCEPT !.exc = [type |-> type, status |-> status,
                                           detail |-> detail]]]

\* A request enters the handler.
NatalRecv(p, reqs) ==
    /\ npc[p] = "idle"
    /\ \E r \in reqs : nreq' = [nreq EXCEPT ![p] = r]
    /\ npc' = [npc EXCEPT ![p] = "check"]
    /\ nloc' = [nloc EXCEPT ![p] = Locals0]
    /\ nresp' = [nresp EXCEPT ![p] = NoResp]
    /\ ncalls' = [ncalls EXCEPT ![p] = <<>>]
    /\ UNCHANGED <<shared, geoVars, lsdVars>>

NatalReceive(p) == NatalRecv(p, NatalReqs)

NatalReceiveConc(p) == NatalRecv(p, ConcReqs)

\* The ayanamsha check made after the time conversion.
NatalCheckAyanamshaLate(p) ==
    /\ npc[p] = "check"
    /\ LET r == to_utc(nreq[p].date, nreq[p].time, nreq[p].tzid)
       IN  /\ ncalls' = [ncalls EXCEPT ![p] = Append(@, Call("to_utc", 0, 0))]
           /\ IF ~r.ok
              THEN Raise(p, "ValueError", 0, "")
              ELSE IF Lower(nreq[p].ayanamsha) # LAHIRI
              THEN Raise(p, "HTTPException", 400, "Only lahiri supported")
              ELSE /\ npc' = [npc EXCEPT ![p] = "to_utc"]
                   /\ UNCHANGED nloc
    /\ UNCHANGED <<shared, nreq, nresp, geoVars, lsdVars>>

\* if req.ayanamsha.lower() != "lahiri": raise HTTPException(400, ...)
NatalCheckAyanamsha(p) ==
    /\ npc[p] = "check"
    /\ IF Lower(nreq[p].ayanamsha) # LAHIRI
       THEN Raise(p, "HTTPException", 400, "Only lahiri supported")
       ELSE /\ npc' = [npc EXCEPT ![p] = "to_utc"]
            /\ UNCHANGED nloc
    /\ UNCHANGED <<shared, nreq, nresp, ncalls, geoVars, lsdVars>>

\* dt_utc = to_utc(req.date, req.time, req.tzid)
NatalToUtc(p) ==
    /\ npc[p] = "to_utc"
    /\ ncalls' = [ncalls EXCEPT ![p] = Append(@, Call("to_utc", 0, 0))]
    /\ LET r == to_utc(nreq[p].date, nreq[p].time, nreq[p].tzid)
       IN  IF r.ok
           THEN /\ nloc' = [nloc EXCEPT ![p].dt_utc = r.dt]
                /\ npc' = [npc EXCEPT ![p] = "julday"]
           ELSE Raise(p, "ValueError", 0, "")
    /\ UNCHANGED <<shared, nreq, nresp, geoVars, lsdVars>>

\* jd_ut = swe.julday(...)
NatalJulday(p) ==
    /\ npc[p] = "julday"
    /\ LET jd == julday(nloc[p].dt_utc)
       IN  /\ nloc' = [nloc EXCEPT ![p].jd_ut = jd]
           /\ ncalls' = [ncalls EXCEPT ![p] = Append(@, Call("julday", jd, 0))]
    /\ npc' = [npc EXCEPT ![p] = "houses"]
    /\ UNCHANGED <<shared, nreq, nresp, geoVars, lsdVars>>

\* cusps, ascmc = swe.houses(jd_ut, req.lat, req.lon, b'P')
\* asc_trop = ascmc[0] % 360.0            (the library call may raise)
NatalHouses(p) ==
    /\ npc[p] = "houses"
    /\ ncalls' = [ncalls EXCEPT ![p] =
                    Append(@, Call("houses", nloc[p].jd_ut, 0))]
    /\ IF ~swe_raises(ephe_path, "houses", nloc[p].jd_ut, nreq[p].lon)
         THEN /\ nloc' = [nloc EXCEPT ![p].asc_trop =
                   PyMod(swe_houses_asc(nloc[p].jd_ut, nreq[p].lat, nreq[p].lon),
                         D360)]
              /\ npc' = [npc EXCEPT ![p] = "ayanamsa"]
         ELSE Raise(p, "swe.Error", 0, "")
    /\ UNCHANGED <<shared, nreq, nresp, geoVars, lsdVars>>

\* ay = swe.get_ayanamsa_ut(jd_ut); asc_lon = (asc_trop - ay) % 360.0
\* asc_sign, asc_deg = lon_to_sign_deg(asc_lon); planets_out = []
NatalAyanamsa(p) ==
    /\ npc[p] = "ayanamsa"
    /\ ncalls' = [ncalls EXCEPT ![p] =
                    Append(@, Call("get_ayanamsa_ut", nloc[p].jd_ut, 0))]
    /\ IF ~swe_raises(ephe_path, "get_ayanamsa_ut", nloc[p].jd_ut, 0)
         THEN LET ay == swe_get_ayanamsa_ut(sid_mode, nloc[p].jd_ut)
                  asc_lon == PyMod(FRound(nloc[p].asc_trop - ay), D360)
                  sd == lon_to_sign_deg(asc_lon)
              IN  IF sd.ok
                  THEN /\ nloc' = [nloc EXCEPT ![p].ay = ay,
                                               ![p].asc_lon = asc_lon,
                                               ![p].asc_sign = sd.sign,
                                               ![p].asc_deg = sd.deg,
                                               ![p].planets_out = <<>>,
                                               ![p].i = 1]
                       /\ npc' = [npc EXCEPT ![p] = "loop"]
                  ELSE Raise(p, "IndexError", 0, "")
         ELSE Raise(p, "swe.Error", 0, "")
    /\ UNCHANGED <<shared, nreq, nresp, geoVars, lsdVars>>

PlanetOut(name, lon, sd) ==
    [name |-> name, lon |-> lon, sign |-> sd.sign, degree |-> sd.deg]

\* The loop without the test for "Ketu": the None id goes to the library,
\* which rejects it.
NatalLoopNoSkip(p) ==
    /\ npc[p] = "loop"
    /\ LET e == PLANETS[nloc[p].i]
       IN  /\ ncalls' = [ncalls EXCEPT ![p] =
                           Append(@, Call("calc_ut", nloc[p].jd_ut, e.pid))]
           /\ IF e.pid < 0
              THEN Raise(p, "TypeError", 0, "")
              ELSE LET lon == PyMod(swe_calc_ut(sid_mode, ephe_path,
                                                nloc[p].jd_ut, e.pid), D360)
                   IN  /\ nloc' = [nloc EXCEPT
                             ![p].planets_out =
                                 Append(@, PlanetOut(e.name, lon,
                                                     lon_to_sign_deg(lon))),
                             ![p].i = @ + 1]
                       /\ npc' = [npc EXCEPT ![p] =
                             IF nloc[p].i = Len(PLANETS) THEN "ketu" ELSE "loop"]
    /\ UNCHANGED <<shared, nreq, nresp, geoVars, lsdVars>>

\* One iteration of: for name, pid in PLANETS.items()
\*   if name == "Ketu": continue
\*   lon = swe.calc_ut(jd_ut, pid, flags)[0] % 360.0   (the call may raise)
\*   sign, deg = lon_to_sign_deg(lon); planets_out.append(PlanetOut(...))
NatalLoop(p) ==
    /\ npc[p] = "loop"
    /\ LET e == PLANETS[nloc[p].i]
           next == IF nloc[p].i = Len(PLANETS) THEN "ketu" ELSE "loop"
       IN  IF e.name = "Ketu"
           THEN /\ nloc' = [nloc EXCEPT ![p].i = @ + 1]
                /\ npc' = [npc EXCEPT ![p] = next]
                /\ UNCHANGED ncalls
           ELSE /\ ncalls' = [ncalls EXCEPT ![p] =
                                Append(@, Call("calc_ut", nloc[p].jd_ut, e.pid))]
                /\ IF ~swe_raises(ephe_path, "calc_ut", nloc[p].jd_ut, e.pid)
                     THEN LET lon == PyMod(swe_calc_ut(sid_mode, ephe_path,
                                                       nloc[p].jd_ut, e.pid),
                                           D360)
                              sd == lon_to_sign_deg(lon)
                          IN  IF sd.ok
                              THEN /\ nloc' = [nloc EXCEPT
                                         ![p].planets_out =
                                             Append(@, PlanetOut(e.name, lon, sd)),
                                         ![p].i = @ + 1]
                                   /\ npc' = [npc EXCEPT ![p] = next]
                              ELSE Raise(p, "IndexError", 0, "")
                     ELSE Raise(p, "swe.Error", 0, "")
    /\ UNCHANGED <<shared, nreq, nresp, geoVars, lsdVars>>

\* Indices of the entries of s named n, in order.
Named(s, n) == { k \in DOMAIN s : s[k].name = n }

First(S) == CHOOSE k \in S : \A j \in S : k <= j

\* Ketu placed opposite the first body computed instead of opposite Rahu.
KetuLonFromFirst(planets_out) == PyMod(FRound(planets_out[1].lon + D180), D360)

\* rahu_lon = next(p.lon for p in planets_out if p.name == "Rahu")
\* ketu_lon = (rahu_lon + 180.0) % 360.0
KetuLon(planets_out) ==
    PyMod(FRound(planets_out[First(Named(planets_out, "Rahu"))].lon + D180), D360)

NatalKetu(p) ==
    /\ npc[p] = "ketu"
    /\ IF Named(nloc[p].planets_out, "Rahu") = {}
       THEN Raise(p, "StopIteration", 0, "")
       ELSE LET ketu_lon == KetuLon(nloc[p].planets_out)
                sd == lon_to_sign_deg(ketu_lon)
            IN  IF sd.ok
                THEN /\ nloc' = [nloc EXCEPT ![p].planets_out =
                                   Append(@, PlanetOut("Ketu", ketu_lon, sd))]
                     /\ npc' = [npc EXCEPT ![p] = "return"]
                ELSE Raise(p, "IndexError", 0, "")
    /\ UNCHANGED <<shared, nreq, nresp, ncalls, geoVars, lsdVars>>

\* The handler putting the library back to its default sidereal mode when it
\* is done with it.
NatalReturnResetsMode(p) ==
    /\ npc[p] = "return"
    /\ nresp' = [nresp EXCEPT ![p] =
         [status |-> 200, detail |-> "",
          body |-> [birth_utc |-> IsoFormat(nloc[p].dt_utc),
                    ascendant |-> [name |-> "Ascendant",
                                   lon |-> nloc[p].asc_lon,
                                   sign |-> nloc[p].asc_sign,
                                   degree |-> nloc[p].asc_deg],
                    planets |-> SortedByName(nloc[p].planets_out)]]]
    /\ npc' = [npc EXCEPT ![p] = "done"]
    /\ nloc' = [nloc EXCEPT ![p] = Locals0]
    /\ sid_mode' = "SIDM_FAGAN_BRADLEY"
    /\ UNCHANGED <<ephe_path, GEO, PLANETS, SIGNS, nreq, ncalls, geoVars, lsdVars>>

\* return NatalResp(birth_utc=..., ascendant=..., planets=sorted(...))
NatalReturn(p) ==
    /\ npc[p] = "return"
    /\ nresp' = [nresp EXCEPT ![p] =
         [status |-> 200, detail |-> "",
          body |-> [birth_utc |-> IsoFormat(nloc[p].dt_utc),
                    ascendant |-> [name |-> "Ascendant",
                                   lon |-> nloc[p].asc_lon,
                                   sign |-> nloc[p].asc_sign,
                                   degree |-> nloc[p].asc_deg],
                    planets |-> SortedByName(nloc[p].planets_out)]]]
    /\ npc' = [npc EXCEPT ![p] = "done"]
    /\ nloc' = [nloc EXCEPT ![p] = Locals0]
    /\ UNCHANGED <<shared, nreq, ncalls, geoVars, lsdVars>>

\* One except clause for everything: every exception becomes a 500.
ExceptToResponseCatchAll(exc) ==
    [status |-> 500, detail |-> "Internal error computing chart", body |-> NoBody]

\* except HTTPException: raise
\* except Exception as e: ...; raise HTTPException(500, "Internal error ...")
ExceptToResponse(exc) ==
    IF exc.type = "HTTPException"
    THEN [status |-> exc.status, detail |-> exc.detail, body |-> NoBody]
    ELSE [status |-> 500, detail |-> "Internal error computing chart",
          body |-> NoBody]

NatalExcept(p) ==
    /\ npc[p] = "except"
    /\ nresp' = [nresp EXCEPT ![p] = ExceptToResponse(nloc[p].exc)]
    /\ npc' = [npc EXCEPT ![p] = "done"]
    /\ UNCHANGED <<shared, nreq, nloc, ncalls, geoVars, lsdVars>>

\* The response is sent; the worker is free for the next request.
NatalReset(p) ==
    /\ npc[p] = "done"
    /\ npc' = [npc EXCEPT ![p] = "idle"]
    /\ nreq' = [nreq EXCEPT ![p] = NoReq]
    /\ nloc' = [nloc EXCEPT ![p] = Locals0]
    /\ nresp' = [nresp EXCEPT ![p] = NoResp]
    /\ ncalls' = [ncalls EXCEPT ![p] = <<>>]
    /\ UNCHANGED <<shared, geoVars, lsdVars>>

----------------------------------------------------------------------------
(* geocode_place *)

Places == {"Delhi, India", ""}

NoLoc == [found |-> FALSE, address |-> "", latitude |-> 0, longitude |-> 0]

\* What the provider can answer for a place when the call returns: a
\* Location (address, latitude, longitude) or None.
ProviderAnswers(place) ==
    IF place = "Delhi, India"
    THEN { [found |-> TRUE, address |-> "Delhi, India", latitude |-> 29,
            longitude |-> 77],
           [found |-> TRUE, address |-> "New Delhi, Delhi, India",
            latitude |-> 28, longitude |-> 77] }
    ELSE { NoLoc }

NoAnswer == [raised |-> FALSE, loc |-> NoLoc]

NoGeoResp == [status |-> 0, detail |-> "", lat |-> 0, lon |-> 0, tzid |-> "",
              normalized_place |-> ""]

GeoReceive ==
    /\ gpc = "idle"
    /\ \E place \in Places : greq' = place
    /\ gpc' = "running"
    /\ gresp' = NoGeoResp
    /\ gcalls' = 0
    /\ gloc' = NoAnswer
    /\ UNCHANGED <<shared, natalVars, lsdVars>>

\* A handler that answers 404 when the provider call raises.
GeoOutcomeCatching(raised, loc) ==
    IF raised \/ ~loc.found
    THEN [NoGeoResp EXCEPT !.status = 404, !.detail = "Place not found"]
    ELSE [status |-> 200, detail |-> "", lat |-> loc.latitude,
          lon |-> loc.longitude, tzid |-> "UNKNOWN",
          normalized_place |-> loc.address]

\* A handler that passes the place through as its normalized form.
GeoOutcomeEcho(raised, loc) ==
    IF raised
    THEN [NoGeoResp EXCEPT !.status = -1, !.detail = "unhandled exception"]
    ELSE IF ~loc.found
    THEN [NoGeoResp EXCEPT !.status = 404, !.detail = "Place not found"]
    ELSE [status |-> 200, detail |-> "", lat |-> loc.latitude,
          lon |-> loc.longitude, tzid |-> "UNKNOWN",
          normalized_place |-> greq]

\* The handler after loc = GEO.geocode(req.place, timeout=20): an exception of
\* the call leaves the handler (status -1: no response was built by it);
\* None gives 404; a Location gives the 200 body.
GeoOutcome(raised, loc) ==
    IF raised
    THEN [NoGeoResp EXCEPT !.status = -1, !.detail = "unhandled exception"]
    ELSE IF ~loc.found
    THEN [NoGeoResp EXCEPT !.status = 404, !.detail = "Place not found"]
    ELSE [status |-> 200, detail |-> "", lat |-> loc.latitude,
          lon |-> loc.longitude, tzid |-> "UNKNOWN",
          normalized_place |-> loc.address]

GeocodePlace ==
    /\ gpc = "running"
    /\ gcalls' = gcalls + 1
    /\ \E raised \in BOOLEAN :
         \E loc \in ProviderAnswers(greq) :
           /\ gloc' = [raised |-> raised, loc |-> IF raised THEN NoLoc ELSE loc]
           /\ gresp' = GeoOutcome(raised, gloc'.loc)
    /\ gpc' = "done"
    /\ UNCHANGED <<shared, greq, natalVars, lsdVars>>

GeoReset ==
    /\ gpc = "done"
    /\ gpc' = "idle"
    /\ greq' = ""
    /\ gresp' = NoGeoResp
    /\ gcalls' = 0
    /\ gloc' = NoAnswer
    /\ UNCHANGED <<shared, natalVars, lsdVars>>

----------------------------------------------------------------------------
(* Direct calls of lon_to_sign_deg *)

\* Representable longitudes from below -360 to above 720.
LsdInputs == { x \in (0 - D360 - D30)..(2 * D360 + D30) : Representable(x) }

NoLsd == [called |-> FALSE, ok |-> FALSE, sign |-> "", deg |-> 0]

LsdCall ==
    /\ ~lsd_out.called
    /\ LET sd == lon_to_sign_deg(lsd_in)
       IN  lsd_out' = [called |-> TRUE, ok |-> sd.ok, sign |-> sd.sign,
                       deg |-> sd.deg]
    /\ UNCHANGED <<shared, natalVars, geoVars, lsd_in>>

----------------------------------------------------------------------------
(* Specifications *)

\* Import time: lines 17-39.
Startup ==
    /\ sid_mode = "SIDM_LAHIRI"
    /\ ephe_path \in EphePaths
    /\ GEO = "Nominatim(vedic-chart-api)"
    /\ PLANETS = PLANETS0
    /\ SIGNS = SIGNS0

Idle ==
    /\ npc = [p \in NatalWorkers |-> "idle"]
    /\ nreq = [p \in NatalWorkers |-> NoReq]
    /\ nloc = [p \in NatalWorkers |-> Locals0]
    /\ nresp = [p \in NatalWorkers |-> NoResp]
    /\ ncalls = [p \in NatalWorkers |-> <<>>]
    /\ gpc = "idle"
    /\ greq = ""
    /\ gresp = NoGeoResp
    /\ gcalls = 0
    /\ gloc = NoAnswer

Init == Startup /\ Idle /\ lsd_in = 0 /\ lsd_out = NoLsd

InitLsd == Startup /\ Idle /\ lsd_in \in LsdInputs /\ lsd_out = NoLsd

NatalStep(p) ==
    \/ NatalCheckAyanamsha(p)
    \/ NatalToUtc(p)
    \/ NatalJulday(p)
    \/ NatalHouses(p)
    \/ NatalAyanamsa(p)
    \/ NatalLoop(p)
    \/ NatalKetu(p)
    \/ NatalReturn(p)
    \/ NatalExcept(p)
    \/ NatalReset(p)

GeoStep == GeoReceive \/ GeocodePlace \/ GeoReset

\* One request of each kind at a time, every request a client can send.
Next ==
    \/ NatalReceive(1)
    \/ NatalStep(1)
    \/ GeoStep

\* Requests served concurrently by every worker.
NextConc ==
    \/ \E p \in NatalWorkers : NatalReceiveConc(p) \/ NatalStep(p)
    \/ GeoStep

NextLsd == LsdCall

Spec == Init /\ [][Next]_vars

SpecConc == Init /\ [][NextConc]_vars

SpecLsd == InitLsd /\ [][NextLsd]_vars

----------------------------------------------------------------------------
(* Properties *)

Done200(p) == npc[p] = "done" /\ nresp[p].status = 200

AyanamshaOk(p) == Lower(nreq[p].ayanamsha) = LAHIRI

Names(ps) == [k \in DOMAIN ps |-> ps[k].name]

\* The entry of a response's planets list with the given name.
Entry(ps, n) == ps[First(Named(ps, n))]

IsPrefix(a, b) == Len(a) <= Len(b) /\ \A k \in DOMAIN a : a[k] = b[k]

\* C1: every 200 response of compute_natal lists exactly the nine bodies, each
\* once, in ascending lexicographic order of name, and the Ascendant is
\* returned apart from the list.
C1_PlanetsSortedByName ==
    \A p \in NatalWorkers :
      Done200(p) =>
        LET ps == nresp[p].body.planets
        IN  /\ Names(ps) = <<"Jupiter", "Ketu", "Mars", "Mercury", "Moon",
                             "Rahu", "Saturn", "Sun", "Venus">>
            /\ \A j, k \in DOMAIN ps : j < k => StrLess(ps[j].name, ps[k].name)
            /\ nresp[p].body.ascendant.name = "Ascendant"

C1_Witness == Done200(1)

\* C2: an ayanamsha whose lower-cased form is not "lahiri" is answered 400
\* "Only lahiri supported" with no conversion or ephemeris call made for the
\* request, whatever the other fields hold; any casing of "lahiri" passes
\* the check and is never answered 400.
C2_UnsupportedAyanamshaFirst ==
    \A p \in NatalWorkers :
      npc[p] # "idle" =>
        IF AyanamshaOk(p)
        THEN /\ nresp[p].status # 400
             /\ npc[p] = "done" => ncalls[p] # <<>>
        ELSE /\ ncalls[p] = <<>>
             /\ npc[p] \in {"check", "except", "done"}
             /\ npc[p] = "done" =>
                  /\ nresp[p].status = 400
                  /\ nresp[p].detail = "Only lahiri supported"

C2_Witness ==
    /\ npc[1] = "done"
    /\ nresp[1].status = 400
    /\ nreq[1].date = "2000-13-01"
    /\ nreq[1].tzid = "Not/AZone"

\* C3: in every 200 response Ketu's longitude is (Rahu's longitude + 180)
\* mod 360 in the handler's float arithmetic, Rahu's longitude being the one
\* in the same response, and no ephemeris query was made for Ketu.
C3_KetuOppositeRahu ==
    \A p \in NatalWorkers :
      Done200(p) =>
        LET ps == nresp[p].body.planets
        IN  /\ Named(ps, "Ketu") # {} /\ Named(ps, "Rahu") # {}
            /\ Entry(ps, "Ketu").lon =
                 PyMod(FRound(Entry(ps, "Rahu").lon + D180), D360)
            /\ \A k \in DOMAIN ncalls[p] :
                 ncalls[p][k].fn = "calc_ut" => ncalls[p][k].pid >= 0

\* Rahu in the second half of the circle, with a sum that needs rounding.
C3_Witness ==
    /\ Done200(1)
    /\ Entry(nresp[1].body.planets, "Rahu").lon >= D180
    /\ ~Representable(Entry(nresp[1].body.planets, "Rahu").lon + D180)

\* A position whose sign and degree are those of its longitude.
Consistent(pos) ==
    /\ 0 <= pos.lon /\ pos.lon < D360
    /\ (pos.lon \div D30) + 1 \in DOMAIN SIGNS0
    /\ pos.sign = SIGNS0[(pos.lon \div D30) + 1]
    /\ pos.degree = pos.lon - D30 * (pos.lon \div D30)
    /\ 0 <= pos.degree /\ pos.degree < D30

PositionsConsistent ==
    \A p \in NatalWorkers :
      Done200(p) =>
        /\ Consistent(nresp[p].body.ascendant)
        /\ \A k \in DOMAIN nresp[p].body.planets :
             Consistent(nresp[p].body.planets[k])

\* C4: every position of a response has lon in [0,360), the sign and the
\* degree of that lon, degree in [0,30); and lon_to_sign_deg indexes SIGNS
\* inside 0..11 for every input longitude.
C4_SignDegreeFromLongitude ==
    /\ PositionsConsistent
    /\ lsd_out.called => lsd_out.ok

\* Whether some step of the handler fails for request r under the
\* ephemeris at path.
StepFails(r, path) ==
    \/ ~to_utc(r.date, r.time, r.tzid).ok
    \/ LET jd == julday(to_utc(r.date, r.time, r.tzid).dt)
       IN  \/ swe_raises(path, "houses", jd, r.lon)
           \/ swe_raises(path, "get_ayanamsa_ut", jd, 0)
           \/ \E pid \in {0, 1, 2, 3, 4, 5, 6, 11} :
                swe_raises(path, "calc_ut", jd, pid)

\* C5: with the ayanamsha accepted, a request in which any step fails ends
\* with 500 and the fixed message and nothing else, a request in which none
\* fails ends with 200, never 400; the HTTPException of the ayanamsha check
\* leaves with its own status 400, never 500.
C5_FailuresBecome500 ==
    \A p \in NatalWorkers :
      npc[p] = "done" =>
        IF ~AyanamshaOk(p)
        THEN nresp[p].status = 400
        ELSE IF StepFails(nreq[p], ephe_path)
        THEN /\ nresp[p].status = 500
             /\ nresp[p].detail = "Internal error computing chart"
             /\ nresp[p].body = NoBody
        ELSE nresp[p].status = 200

C5_Witness ==
    /\ npc[1] = "done"
    /\ AyanamshaOk(1)
    /\ nreq[1].tzid = "Not/AZone"
    /\ nreq[1].date \in DOMAIN DateTable
    /\ nreq[1].time \in DOMAIN TimeTable
    /\ nresp[1].status = 500

\* C6: geocode_place makes exactly one provider call; no match gives 404
\* "Place not found"; a match gives 200 with the provider's latitude,
\* longitude and display string and tzid "UNKNOWN"; no other tzid is ever
\* returned.
C6_GeocodeContract ==
    /\ gpc = "running" => gcalls = 0
    /\ gpc = "done" =>
         /\ gcalls = 1
         /\ (~gloc.raised /\ ~gloc.loc.found) =>
              gresp.status = 404 /\ gresp.detail = "Place not found"
         /\ (~gloc.raised /\ gloc.loc.found) =>
              /\ gresp.status = 200
              /\ gresp.lat = gloc.loc.latitude
              /\ gresp.lon = gloc.loc.longitude
              /\ gresp.normalized_place = gloc.loc.address
              /\ gresp.tzid = "UNKNOWN"
         /\ gresp.status = 200 => gresp.tzid = "UNKNOWN"
         /\ gresp.status # 200 => gresp.tzid = ""

\* A match whose display string differs from the place asked for.
C6_Witness ==
    /\ gpc = "done"
    /\ gresp.status = 200
    /\ gresp.normalized_place # greq

\* C7: no handler step writes the process-wide state, and two natal requests
\* with the same fields that both answer 200 carry the same birth_utc,
\* ascendant and planets, whatever ran before or alongside them.
C7_SharedStateReadOnly ==
    /\ [][shared' = shared]_vars
    /\ [](\A p, q \in NatalWorkers :
            (Done200(p) /\ Done200(q) /\ nreq[p] = nreq[q]) =>
              nresp[p].body = nresp[q].body)

\* Two workers hold 200 responses to the same request while a geocode
\* request has run to its end.
C7_Witness ==
    /\ Done200(1) /\ Done200(2)
    /\ nreq[1] = nreq[2]
    /\ gpc = "done"

\* C8: an exception of the provider call leaves geocode_place as it is: the
\* handler builds neither a 404 nor a 200 from it; compute_natal, in contrast,
\* ends every request with a status.
C8_GeocodeProviderFailureUnhandled ==
    /\ (gpc = "done" /\ gloc.raised) =>
         /\ gresp.status = -1
         /\ gresp.status \notin {200, 404}
    /\ (gpc = "done" /\ ~gloc.raised) => gresp.status \in {200, 404}
    /\ \A p \in NatalWorkers :
         npc[p] = "done" => nresp[p].status \in {200, 400, 500}

C8_Witness == gpc = "done" /\ gloc.raised /\ greq = "Delhi, India"

\* The ascendant longitude the claim gives for request r.
AscendantOf(r, mode) ==
    LET jd == julday(to_utc(r.date, r.time, r.tzid).dt)
    IN  PyMod(FRound(PyMod(swe_houses_asc(jd, r.lat, r.lon), D360)
                     - swe_get_ayanamsa_ut(mode, jd)), D360)

\* C9: in every 200 response the ascendant longitude is (tropical ascendant
\* - ayanamsha at the same Julian Day) mod 360 and lies in [0,360).
C9_AscendantSidereal ==
    \A p \in NatalWorkers :
      Done200(p) =>
        /\ nresp[p].body.ascendant.lon = AscendantOf(nreq[p], sid_mode)
        /\ 0 <= nresp[p].body.ascendant.lon
        /\ nresp[p].body.ascendant.lon < D360

\* The calls of a request that runs to its end, at Julian Day jd.
ExpectedCalls(jd) ==
    << Call("to_utc", 0, 0), Call("julday", jd, 0), Call("houses", jd, 0),
       Call("get_ayanamsa_ut", jd, 0),
       Call("calc_ut", jd, 0), Call("calc_ut", jd, 1), Call("calc_ut", jd, 4),
       Call("calc_ut", jd, 2), Call("calc_ut", jd, 5), Call("calc_ut", jd, 3),
       Call("calc_ut", jd, 6), Call("calc_ut", jd, 11) >>

\* C10: a request makes its ephemeris calls in the order houses, ayanamsha,
\* then Sun, Moon, Mars, Mercury, Jupiter, Venus, Saturn, Rahu, all at the
\* request's Julian Day; a request answered 200 made exactly these; Ketu
\* enters the list only after Rahu; a request that failed returns no list.
C10_EightQueriesInOrder ==
    \A p \in NatalWorkers :
      /\ Len(ncalls[p]) <= 1 => IsPrefix(ncalls[p], <<Call("to_utc", 0, 0)>>)
      /\ Len(ncalls[p]) >= 2 =>
           /\ ncalls[p][2].jd =
                julday(to_utc(nreq[p].date, nreq[p].time, nreq[p].tzid).dt)
           /\ IsPrefix(ncalls[p], ExpectedCalls(ncalls[p][2].jd))
      /\ Done200(p) =>
           /\ Len(ncalls[p]) = 12
           /\ Len(nresp[p].body.planets) = 9
      /\ (npc[p] = "done" /\ nresp[p].status # 200) =>
           nresp[p].body.planets = <<>>
      /\ \A k \in DOMAIN nloc[p].planets_out :
           nloc[p].planets_out[k].name = "Ketu" =>
             /\ k = 9
             /\ nloc[p].planets_out[8].name = "Rahu"
             /\ Len(ncalls[p]) = 12

\* A request that failed in the middle of the loop over the bodies.
C10_Witness ==
    /\ npc[1] = "done"
    /\ nresp[1].status = 500
    /\ Len(ncalls[1]) > 5
    /\ Len(ncalls[1]) < 12

====
